---- MODULE Spec2Model ----
(***************************************************************************)
(* Model of the superdev-api HTTP service (src/src/main.rs and              *)
(* src/src/handlers.rs): seven request handlers that build Solana          *)
(* instructions, generate keypairs and sign / verify messages.             *)
(*                                                                         *)
(* Representation of values                                                *)
(*   bytes        sequences over 0..255                                    *)
(*   base58 text  sequences of alphabet indexes 0..57 ('1' is index 0);    *)
(*                58 stands for any character outside the alphabet         *)
(*   base64 text  sequences of alphabet indexes 0..63; 64 is the padding   *)
(*                character '='; 65 stands for any other character         *)
(*   message      the sequence of its UTF-8 bytes                          *)
(* Keys are KeyLen bytes long (32 in the program); a keypair encoding and  *)
(* a signature are 2 * KeyLen bytes long (64 in the program).              *)
(***************************************************************************)
EXTENDS Integers, Sequences, FiniteSets, TLC

\* Length in bytes of a public key and of a secret seed (32 in the program).
KeyLen == 2
\* Largest amount / lamports value the requests carry (u64 in the program).
MaxAmount == 2

Ok(v) == [ok |-> TRUE, val |-> v]
Err(e) == [ok |-> FALSE, err |-> e]

RECURSIVE Reverse(_)
Reverse(s) == IF s = <<>> THEN <<>> ELSE Reverse(Tail(s)) \o <<Head(s)>>

RECURSIVE LeadingZeros(_)
LeadingZeros(s) ==
    IF s = <<>> \/ Head(s) # 0 THEN 0 ELSE 1 + LeadingZeros(Tail(s))

Zeros(n) == [i \in 1..n |-> 0]

(***************************************************************************)
(* bs58: the digit-array algorithm of bs58::encode / bs58::decode.         *)
(* MulAdd multiplies the little-endian number `digs` (digits in `radix`)   *)
(* by `mul` and adds `carry`.                                              *)
(***************************************************************************)
RECURSIVE MulAdd(_, _, _, _)
MulAdd(digs, carry, mul, radix) ==
    IF digs = <<>>
    THEN IF carry = 0 THEN <<>>
         ELSE <<carry % radix>> \o MulAdd(<<>>, carry \div radix, mul, radix)
    ELSE LET v == Head(digs) * mul + carry
         IN  <<v % radix>> \o MulAdd(Tail(digs), v \div radix, mul, radix)

RECURSIVE Bs58Digits(_, _)
Bs58Digits(bytes, acc) ==
    IF bytes = <<>> THEN acc
    ELSE Bs58Digits(Tail(bytes), MulAdd(acc, Head(bytes), 256, 58))

\* bs58::encode(bytes).into_string()
bs58_encode(bytes) ==
    Zeros(LeadingZeros(bytes)) \o Reverse(Bs58Digits(bytes, <<>>))

RECURSIVE Bs58Bytes(_, _)
Bs58Bytes(text, acc) ==
    IF text = <<>> THEN acc
    ELSE Bs58Bytes(Tail(text), MulAdd(acc, Head(text), 58, 256))

\* bs58::decode(text).into_vec(): fails on a character outside the alphabet
bs58_decode(text) ==
    IF \E i \in 1..Len(text) : text[i] > 57
    THEN Err("InvalidCharacter")
    ELSE Ok(Zeros(LeadingZeros(text)) \o Reverse(Bs58Bytes(text, <<>>)))

(***************************************************************************)
(* base64 general_purpose::STANDARD: canonical padding required, trailing  *)
(* bits must be zero.                                                      *)
(***************************************************************************)
RECURSIVE base64_encode(_)
base64_encode(bytes) ==
    IF bytes = <<>> THEN <<>>
    ELSE IF Len(bytes) = 1
    THEN <<bytes[1] \div 4, (bytes[1] % 4) * 16, 64, 64>>
    ELSE IF Len(bytes) = 2
    THEN <<bytes[1] \div 4, (bytes[1] % 4) * 16 + bytes[2] \div 16,
           (bytes[2] % 16) * 4, 64>>
    ELSE <<bytes[1] \div 4, (bytes[1] % 4) * 16 + bytes[2] \div 16,
           (bytes[2] % 16) * 4 + bytes[3] \div 64, bytes[3] % 64>>
         \o base64_encode(SubSeq(bytes, 4, Len(bytes)))

RECURSIVE Base64Quads(_)
Base64Quads(text) ==
    IF text = <<>> THEN Ok(<<>>)
    ELSE LET a == text[1]
             b == text[2]
             c == text[3]
             d == text[4]
             last == Len(text) = 4
         IN  IF a > 63 \/ b > 63 \/ c > 64 \/ d > 64 THEN Err("InvalidByte")
             ELSE IF c = 64 /\ d # 64 THEN Err("InvalidByte")
             ELSE IF (c = 64 \/ d = 64) /\ ~last THEN Err("InvalidByte")
             ELSE IF c = 64
             THEN IF b % 16 # 0 THEN Err("InvalidLastSymbol")
                  ELSE Ok(<<a * 4 + b \div 16>>)
             ELSE IF d = 64
             THEN IF c % 4 # 0 THEN Err("InvalidLastSymbol")
                  ELSE Ok(<<a * 4 + b \div 16, (b % 16) * 16 + c \div 4>>)
             ELSE LET rest == Base64Quads(SubSeq(text, 5, Len(text)))
                  IN  IF ~rest.ok THEN rest
                      ELSE Ok(<<a * 4 + b \div 16, (b % 16) * 16 + c \div 4,
                                (c % 4) * 64 + d>> \o rest.val)

\* general_purpose::STANDARD.decode(text)
base64_decode(text) ==
    IF Len(text) % 4 # 0 THEN Err("InvalidPadding") ELSE Base64Quads(text)

(***************************************************************************)
(* Keys and signatures (solana_sdk::pubkey, solana_sdk::signature).        *)
(* The Ed25519 primitives are an idealised scheme with unique signatures:  *)
(* the public key is an injective image of the seed, a signature is R || S *)
(* with R an injective image of the message (for messages shorter than     *)
(* KeyLen) and S bound to R and the seed, and verification is a public     *)
(* equation over (public key, R, S).                                       *)
(***************************************************************************)
\* PublicKey::from(&secret)
ed25519_public(seed) == [i \in 1..KeyLen |-> (seed[i] * 3 + 1) % 256]

Digest(msg) ==
    [i \in 1..KeyLen |->
        IF i <= Len(msg) THEN msg[i] ELSE IF i = Len(msg) + 1 THEN 128 ELSE 0]

\* Keypair::sign_message(message): the 2 * KeyLen bytes of the signature
ed25519_sign(keypair, msg) ==
    LET R == Digest(msg)
    IN  R \o [i \in 1..KeyLen |-> (keypair.secret[i] + R[i]) % 256]

\* Signature::verify(pubkey_bytes, message_bytes)
ed25519_verify(sig, pubkey, msg) ==
    LET R == SubSeq(sig, 1, KeyLen)
        S == SubSeq(sig, KeyLen + 1, 2 * KeyLen)
    IN  /\ R = Digest(msg)
        /\ \A i \in 1..KeyLen : (S[i] * 3 + 1) % 256 = (pubkey[i] + R[i] * 3) % 256

\* MAX_BASE58_LEN: the longest base58 text of a key
MaxBase58Len == Len(bs58_encode([i \in 1..KeyLen |-> 255]))

\* Pubkey::from_str(text)
Pubkey_from_str(text) ==
    IF Len(text) > MaxBase58Len THEN Err("WrongSize")
    ELSE LET d == bs58_decode(text)
         IN  IF ~d.ok THEN Err("Invalid")
             ELSE IF Len(d.val) # KeyLen THEN Err("WrongSize")
             ELSE Ok(d.val)

\* Pubkey::to_string()
Pubkey_to_string(key) == bs58_encode(key)

\* Pubkey::from_str_const(text): panics where from_str fails
Pubkey_from_str_const(text) ==
    LET r == Pubkey_from_str(text)
    IN  IF r.ok THEN r ELSE Err("panic")

\* Keypair::new(), the random seed drawn by the caller
Keypair_new(seed) == [secret |-> seed, public |-> ed25519_public(seed)]

\* Keypair::to_bytes()
Keypair_to_bytes(keypair) == keypair.secret \o keypair.public

\* Keypair::from_bytes(bytes): the length, then the public half against the
\* key derived from the secret half (solana-keypair 2.x)
Keypair_from_bytes(bytes) ==
    IF Len(bytes) # 2 * KeyLen THEN Err("SignatureError")
    ELSE LET secret == SubSeq(bytes, 1, KeyLen)
             public == SubSeq(bytes, KeyLen + 1, 2 * KeyLen)
         IN  IF public # ed25519_public(secret) THEN Err("SignatureError")
             ELSE Ok([secret |-> secret, public |-> public])

\* Signature::try_from(bytes)
Signature_try_from(bytes) ==
    IF Len(bytes) # 2 * KeyLen THEN Err("TryFromSliceError") ELSE Ok(bytes)

(***************************************************************************)
(* Instruction layouts (spl_token::instruction, system_instruction).       *)
(***************************************************************************)
\* The first bytes of the well-known program and sysvar identifiers.
TokenProgramBytes == <<6, 221, 246, 225>>
RentSysvarBytes == <<6, 167, 213, 23>>

KeyOf(bytes) == [i \in 1..KeyLen |-> IF i <= Len(bytes) THEN bytes[i] ELSE 0]

\* spl_token::id()
spl_token_id == KeyOf(TokenProgramBytes)
\* sysvar::rent::id()
rent_id == KeyOf(RentSysvarBytes)
\* system_program::id(): the all-zero key "1111...1"
system_program_id == Zeros(KeyLen)

\* u64::to_le_bytes
U64Le(n) == [i \in 1..8 |-> IF i = 1 THEN n % 256 ELSE IF i = 2 THEN (n \div 256) % 256 ELSE 0]
\* u32 enum tag of bincode
U32Le(n) == <<n % 256, 0, 0, 0>>

\* AccountMeta::new(pubkey, is_signer)
AccountMeta_new(pubkey, is_signer) ==
    [pubkey |-> pubkey, is_signer |-> is_signer, is_writable |-> TRUE]
\* AccountMeta::new_readonly(pubkey, is_signer)
AccountMeta_new_readonly(pubkey, is_signer) ==
    [pubkey |-> pubkey, is_signer |-> is_signer, is_writable |-> FALSE]

\* check_program_account
check_program_account(program_id) == program_id = spl_token_id

\* token_instruction::initialize_mint(program, mint, mint_authority, None, decimals)
initialize_mint(program_id, mint, mint_authority, decimals) ==
    IF ~check_program_account(program_id) THEN Err("IncorrectProgramId")
    ELSE Ok([program_id |-> program_id,
             accounts |-> <<AccountMeta_new(mint, FALSE),
                            AccountMeta_new_readonly(rent_id, FALSE)>>,
             data |-> <<0, decimals>> \o mint_authority \o <<0>>])

\* token_instruction::mint_to(program, mint, account, owner, &[], amount)
mint_to(program_id, mint, account, owner, amount) ==
    IF ~check_program_account(program_id) THEN Err("IncorrectProgramId")
    ELSE Ok([program_id |-> program_id,
             accounts |-> <<AccountMeta_new(mint, FALSE),
                            AccountMeta_new(account, FALSE),
                            AccountMeta_new_readonly(owner, TRUE)>>,
             data |-> <<7>> \o U64Le(amount)])

\* token_instruction::transfer(program, source, destination, authority, &[], amount)
token_transfer(program_id, source, destination, authority, amount) ==
    IF ~check_program_account(program_id) THEN Err("IncorrectProgramId")
    ELSE Ok([program_id |-> program_id,
             accounts |-> <<AccountMeta_new(source, FALSE),
                            AccountMeta_new(destination, FALSE),
                            AccountMeta_new_readonly(authority, TRUE)>>,
             data |-> <<3>> \o U64Le(amount)])

\* system_instruction::transfer(from, to, lamports)
system_transfer(from, to, lamports) ==
    [program_id |-> system_program_id,
     accounts |-> <<AccountMeta_new(from, TRUE), AccountMeta_new(to, FALSE)>>,
     data |-> U32Le(2) \o U64Le(lamports)]

(***************************************************************************)
(* ApiError and the response types of main.rs.                             *)
(***************************************************************************)
InvalidPubkey(text) == [kind |-> "InvalidPubkey", text |-> text]
InvalidSecretKey(reason) == [kind |-> "InvalidSecretKey", reason |-> reason]
InvalidSignature(reason) == [kind |-> "InvalidSignature", reason |-> reason]
MissingField(name) == [kind |-> "MissingField", field |-> name]
InvalidAmount == [kind |-> "InvalidAmount"]
ProgramError(details) == [kind |-> "ProgramError", details |-> details]

\* the .map(|account_meta| AccountInfo { .. }) projection
AccountInfo(meta) ==
    [pubkey |-> Pubkey_to_string(meta.pubkey),
     is_signer |-> meta.is_signer,
     is_writable |-> meta.is_writable]

\* InstructionResponse { program_id, accounts, instruction_data }
InstructionResponse(instruction) ==
    [program_id |-> Pubkey_to_string(instruction.program_id),
     accounts |-> [i \in 1..Len(instruction.accounts) |->
                      AccountInfo(instruction.accounts[i])],
     instruction_data |-> base64_encode(instruction.data)]

(***************************************************************************)
(* The handlers of main.rs, as functions from the request payload to       *)
(* Result<SuccessResponse<..>, ApiError>.                                  *)
(***************************************************************************)
\* generate_keypair encoding the seed alone instead of Keypair::to_bytes()
generate_keypair_seed_only(seed) ==
    LET keypair == Keypair_new(seed)
    IN  Ok([pubkey |-> Pubkey_to_string(keypair.public),
            secret |-> bs58_encode(keypair.secret)])

\* generate_keypair(), with the seed Keypair::new() draws
generate_keypair(seed) ==
    LET keypair == Keypair_new(seed)
    IN  Ok([pubkey |-> Pubkey_to_string(keypair.public),
            secret |-> bs58_encode(Keypair_to_bytes(keypair))])

\* create_token reporting the mint before the mint authority
create_token_mint_first(payload) ==
    LET mint_authority == Pubkey_from_str(payload.mint_authority)
        mint == Pubkey_from_str(payload.mint)
    IN  IF ~mint.ok THEN Err(InvalidPubkey(payload.mint))
        ELSE IF ~mint_authority.ok THEN Err(InvalidPubkey(payload.mint_authority))
        ELSE Ok(InstructionResponse(
                    initialize_mint(spl_token_id, mint.val, mint_authority.val,
                                    payload.decimals).val))

create_token(payload) ==
    LET mint_authority == Pubkey_from_str(payload.mint_authority)
        mint == Pubkey_from_str(payload.mint)
    IN  IF ~mint_authority.ok THEN Err(InvalidPubkey(payload.mint_authority))
        ELSE IF ~mint.ok THEN Err(InvalidPubkey(payload.mint))
        ELSE LET instruction ==
                     initialize_mint(spl_token_id, mint.val, mint_authority.val,
                                     payload.decimals)
             IN  IF ~instruction.ok THEN Err(ProgramError(instruction.err))
                 ELSE Ok(InstructionResponse(instruction.val))

\* mint_token rejecting a zero amount as the transfers do
mint_token_reject_zero(payload) ==
    LET mint == Pubkey_from_str(payload.mint)
        destination == Pubkey_from_str(payload.destination)
        authority == Pubkey_from_str(payload.authority)
    IN  IF payload.amount = 0 THEN Err(InvalidAmount)
        ELSE IF ~mint.ok THEN Err(InvalidPubkey(payload.mint))
        ELSE IF ~destination.ok THEN Err(InvalidPubkey(payload.destination))
        ELSE IF ~authority.ok THEN Err(InvalidPubkey(payload.authority))
        ELSE Ok(InstructionResponse(
                    mint_to(spl_token_id, mint.val, destination.val,
                            authority.val, payload.amount).val))

mint_token(payload) ==
    LET mint == Pubkey_from_str(payload.mint)
        destination == Pubkey_from_str(payload.destination)
        authority == Pubkey_from_str(payload.authority)
    IN  IF ~mint.ok THEN Err(InvalidPubkey(payload.mint))
        ELSE IF ~destination.ok THEN Err(InvalidPubkey(payload.destination))
        ELSE IF ~authority.ok THEN Err(InvalidPubkey(payload.authority))
        ELSE LET instruction ==
                     mint_to(spl_token_id, mint.val, destination.val,
                             authority.val, payload.amount)
             IN  IF ~instruction.ok THEN Err(ProgramError(instruction.err))
                 ELSE Ok(InstructionResponse(instruction.val))

\* sign_message reporting the secret half of the keypair as its public key
sign_message_wrong_half(payload) ==
    IF payload.message = <<>> THEN Err(MissingField("message"))
    ELSE IF payload.secret = <<>> THEN Err(MissingField("secret"))
    ELSE LET secret_bytes == bs58_decode(payload.secret)
         IN  IF ~secret_bytes.ok
             THEN Err(InvalidSecretKey("Invalid base58 encoding"))
             ELSE LET keypair == Keypair_from_bytes(secret_bytes.val)
                  IN  IF ~keypair.ok
                      THEN Err(InvalidSecretKey("Invalid keypair bytes"))
                      ELSE Ok([signature |->
                                   base64_encode(ed25519_sign(keypair.val,
                                                              payload.message)),
                               public_key |-> Pubkey_to_string(keypair.val.secret),
                               message |-> payload.message])

sign_message(payload) ==
    IF payload.message = <<>> THEN Err(MissingField("message"))
    ELSE IF payload.secret = <<>> THEN Err(MissingField("secret"))
    ELSE LET secret_bytes == bs58_decode(payload.secret)
         IN  IF ~secret_bytes.ok
             THEN Err(InvalidSecretKey("Invalid base58 encoding"))
             ELSE LET keypair == Keypair_from_bytes(secret_bytes.val)
                  IN  IF ~keypair.ok
                      THEN Err(InvalidSecretKey("Invalid keypair bytes"))
                      ELSE Ok([signature |->
                                   base64_encode(ed25519_sign(keypair.val,
                                                              payload.message)),
                               public_key |-> Pubkey_to_string(keypair.val.public),
                               message |-> payload.message])

\* verify_message raising InvalidSignature for a signature that does not verify
verify_message_err_on_mismatch(payload) ==
    IF payload.message = <<>> THEN Err(MissingField("message"))
    ELSE IF payload.signature = <<>> THEN Err(MissingField("signature"))
    ELSE IF payload.pubkey = <<>> THEN Err(MissingField("pubkey"))
    ELSE LET pubkey == Pubkey_from_str(payload.pubkey)
             signature_bytes == base64_decode(payload.signature)
         IN  IF ~pubkey.ok THEN Err(InvalidPubkey(payload.pubkey))
             ELSE IF ~signature_bytes.ok
             THEN Err(InvalidSignature("Invalid base64 encoding"))
             ELSE IF ~Signature_try_from(signature_bytes.val).ok
             THEN Err(InvalidSignature("Invalid signature bytes"))
             ELSE IF ~ed25519_verify(signature_bytes.val, pubkey.val, payload.message)
             THEN Err(InvalidSignature("Verification failed"))
             ELSE Ok([valid |-> TRUE, message |-> payload.message,
                      pubkey |-> payload.pubkey])

\* verify_message decoding the public key before the empty-field checks
verify_message_decode_first(payload) ==
    LET pubkey == Pubkey_from_str(payload.pubkey)
        signature_bytes == base64_decode(payload.signature)
    IN  IF ~pubkey.ok THEN Err(InvalidPubkey(payload.pubkey))
        ELSE IF payload.message = <<>> THEN Err(MissingField("message"))
        ELSE IF payload.signature = <<>> THEN Err(MissingField("signature"))
        ELSE IF ~signature_bytes.ok
        THEN Err(InvalidSignature("Invalid base64 encoding"))
        ELSE IF ~Signature_try_from(signature_bytes.val).ok
        THEN Err(InvalidSignature("Invalid signature bytes"))
        ELSE Ok([valid |-> ed25519_verify(signature_bytes.val, pubkey.val,
                                          payload.message),
                 message |-> payload.message, pubkey |-> payload.pubkey])

verify_message(payload) ==
    IF payload.message = <<>> THEN Err(MissingField("message"))
    ELSE IF payload.signature = <<>> THEN Err(MissingField("signature"))
    ELSE IF payload.pubkey = <<>> THEN Err(MissingField("pubkey"))
    ELSE LET pubkey == Pubkey_from_str(payload.pubkey)
         IN  IF ~pubkey.ok THEN Err(InvalidPubkey(payload.pubkey))
             ELSE LET signature_bytes == base64_decode(payload.signature)
                  IN  IF ~signature_bytes.ok
                      THEN Err(InvalidSignature("Invalid base64 encoding"))
                      ELSE LET signature == Signature_try_from(signature_bytes.val)
                           IN  IF ~signature.ok
                               THEN Err(InvalidSignature("Invalid signature bytes"))
                               ELSE Ok([valid |->
                                            ed25519_verify(signature.val, pubkey.val,
                                                           payload.message),
                                        message |-> payload.message,
                                        pubkey |-> payload.pubkey])

\* send_sol checking the amount after decoding the identifiers
send_sol_decode_first(payload) ==
    LET from == Pubkey_from_str(payload.from)
        to == Pubkey_from_str(payload.to)
    IN  IF ~from.ok THEN Err(InvalidPubkey(payload.from))
        ELSE IF ~to.ok THEN Err(InvalidPubkey(payload.to))
        ELSE IF payload.lamports = 0 THEN Err(InvalidAmount)
        ELSE Ok(InstructionResponse(
                    system_transfer(from.val, to.val, payload.lamports)))

\* send_sol passing the recipient as the funding account
send_sol_swapped(payload) ==
    IF payload.lamports = 0 THEN Err(InvalidAmount)
    ELSE LET from == Pubkey_from_str(payload.from)
             to == Pubkey_from_str(payload.to)
         IN  IF ~from.ok THEN Err(InvalidPubkey(payload.from))
             ELSE IF ~to.ok THEN Err(InvalidPubkey(payload.to))
             ELSE Ok(InstructionResponse(
                         system_transfer(to.val, from.val, payload.lamports)))

send_sol(payload) ==
    IF payload.lamports = 0 THEN Err(InvalidAmount)
    ELSE LET from == Pubkey_from_str(payload.from)
             to == Pubkey_from_str(payload.to)
         IN  IF ~from.ok THEN Err(InvalidPubkey(payload.from))
             ELSE IF ~to.ok THEN Err(InvalidPubkey(payload.to))
             ELSE Ok(InstructionResponse(
                         system_transfer(from.val, to.val, payload.lamports)))

\* send_token taking the mint as the source account
send_token_mint_source(payload) ==
    IF payload.amount = 0 THEN Err(InvalidAmount)
    ELSE LET mint == Pubkey_from_str(payload.mint)
             destination == Pubkey_from_str(payload.destination)
             owner == Pubkey_from_str(payload.owner)
         IN  IF ~mint.ok THEN Err(InvalidPubkey(payload.mint))
             ELSE IF ~destination.ok THEN Err(InvalidPubkey(payload.destination))
             ELSE IF ~owner.ok THEN Err(InvalidPubkey(payload.owner))
             ELSE Ok(InstructionResponse(
                         token_transfer(spl_token_id, mint.val, destination.val,
                                        owner.val, payload.amount).val))

send_token(payload) ==
    IF payload.amount = 0 THEN Err(InvalidAmount)
    ELSE LET mint == Pubkey_from_str(payload.mint)
             destination == Pubkey_from_str(payload.destination)
             owner == Pubkey_from_str(payload.owner)
         IN  IF ~mint.ok THEN Err(InvalidPubkey(payload.mint))
             ELSE IF ~destination.ok THEN Err(InvalidPubkey(payload.destination))
             ELSE IF ~owner.ok THEN Err(InvalidPubkey(payload.owner))
             ELSE LET source == owner.val
                      instruction ==
                          token_transfer(spl_token_id, source, destination.val,
                                         owner.val, payload.amount)
                  IN  IF ~instruction.ok THEN Err(ProgramError(instruction.err))
                      ELSE Ok(InstructionResponse(instruction.val))

\* ApiError's Display (thiserror): the message and the carried text
ApiError_to_string(e) ==
    IF e.kind = "InvalidPubkey" THEN [msg |-> "Invalid public key: ", text |-> e.text]
    ELSE IF e.kind = "InvalidSecretKey"
    THEN [msg |-> "Invalid secret key: ", arg |-> e.reason]
    ELSE IF e.kind = "InvalidSignature"
    THEN [msg |-> "Invalid signature: ", arg |-> e.reason]
    ELSE IF e.kind = "MissingField"
    THEN [msg |-> "Missing required field: ", arg |-> e.field]
    ELSE IF e.kind = "InvalidAmount" THEN [msg |-> "Invalid amount"]
    ELSE [msg |-> "Program error: ", arg |-> e.details]

\* What axum sends for a handler's Result: Json(SuccessResponse::new(data)) or
\* ApiError::into_response
into_response(result) ==
    IF result.ok
    THEN [status |-> 200, success |-> TRUE, data |-> result.val]
    ELSE [status |-> 400, success |-> FALSE, kind |-> result.err.kind,
          error |-> ApiError_to_string(result.err)]

(***************************************************************************)
(* handlers.rs: create_token decodes with Pubkey::from_str_const and       *)
(* unwraps the instruction; the outcome is the (StatusCode, Json) pair or  *)
(* a panic of the handler task.                                            *)
(***************************************************************************)
Panicked == [status |-> 0, panic |-> TRUE]

handlers_create_token(payload) ==
    LET mint_authority == Pubkey_from_str_const(payload.mint_authority)
        mint == Pubkey_from_str_const(payload.mint)
    IN  IF ~mint_authority.ok \/ ~mint.ok THEN Panicked
        ELSE LET instruction ==
                     initialize_mint(spl_token_id, mint.val, mint_authority.val,
                                     payload.decimals)
             IN  IF ~instruction.ok THEN Panicked
                 ELSE [status |-> 200, success |-> TRUE,
                       data |-> InstructionResponse(instruction.val)]

(***************************************************************************)
(* Request inputs.                                                         *)
(***************************************************************************)
\* Seeds Keypair::new() may draw.
SeedBytes == {85, 7, 200}
Seeds == {[i \in 1..KeyLen |-> b] : b \in SeedBytes}

\* Message texts: the empty one and those shorter than a key.
MsgBytes == {104, 105}
Messages == UNION {[1..n -> MsgBytes] : n \in 0..(KeyLen - 1)}

\* Identifier texts: the keys of the seeds (seed 85 gives "11..1", the all-zero
\* key), the empty text, a text with a character outside the alphabet, and
\* texts of a key one byte too short and one byte too long.
WellFormedIds == {Pubkey_to_string(ed25519_public(s)) : s \in Seeds}
MalformedIds ==
    {<<>>, <<12, 58>>, bs58_encode([i \in 1..(KeyLen - 1) |-> 9]),
     bs58_encode([i \in 1..(KeyLen + 1) |-> 9])}
IdTexts == WellFormedIds \cup MalformedIds

Amounts == 0..MaxAmount
Decimals == {0, 9}

\* Secret texts: the keypair encodings of the seeds, the empty text, a text
\* outside the alphabet, a seed alone, and a seed with another seed's key.
SecretTexts ==
    {bs58_encode(Keypair_to_bytes(Keypair_new(s))) : s \in Seeds}
    \cup {<<>>, <<58, 3>>}
    \cup {bs58_encode(s) : s \in Seeds}
    \cup {bs58_encode(s \o ed25519_public(t)) : s, t \in Seeds}

\* Signature texts: genuine signatures, signatures with the last byte
\* altered, the empty text, a character outside the alphabet, a signature one
\* byte short, a text whose length is no multiple of 4, and one with non-zero
\* trailing bits.
GenuineSigs == {ed25519_sign(Keypair_new(s), m) : s \in Seeds, m \in Messages \ {<<>>}}
AlterLast(bytes) ==
    [bytes EXCEPT ![Len(bytes)] = (bytes[Len(bytes)] + 1) % 256]
SignatureTexts ==
    {base64_encode(g) : g \in GenuineSigs}
    \cup {base64_encode(AlterLast(g)) : g \in GenuineSigs}
    \cup {<<>>, <<65, 1, 2, 3>>, <<1, 2, 3>>, <<1, 1, 64, 64>>}
    \cup {base64_encode(SubSeq(g, 1, Len(g) - 1)) : g \in GenuineSigs}

(***************************************************************************)
(* State: the request being served (op, req), its outcome (resp), and what *)
(* the client keeps of earlier responses: the last /keypair data (kp) and  *)
(* the last /message/sign data (signed).                                   *)
(***************************************************************************)
VARIABLES op, req, resp, kp, signed

vars == <<op, req, resp, kp, signed>>

None == [none |-> TRUE]

Init ==
    /\ op = "none"
    /\ req = None
    /\ resp = None
    /\ kp = None
    /\ signed = None

GenerateKeypair ==
    /\ op = "none"
    /\ \E seed \in Seeds :
        /\ op' = "generate_keypair"
        /\ req' = None
        /\ resp' = into_response(generate_keypair(seed))
    /\ UNCHANGED <<kp, signed>>

CreateToken ==
    /\ op = "none"
    /\ \E a \in IdTexts, m \in IdTexts, d \in Decimals :
        LET payload == [mint_authority |-> a, mint |-> m, decimals |-> d]
        IN  /\ op' = "create_token"
            /\ req' = payload
            /\ resp' = into_response(create_token(payload))
    /\ UNCHANGED <<kp, signed>>

MintToken ==
    /\ op = "none"
    /\ \E m \in IdTexts, d \in IdTexts, a \in IdTexts, n \in Amounts :
        LET payload == [mint |-> m, destination |-> d, authority |-> a, amount |-> n]
        IN  /\ op' = "mint_token"
            /\ req' = payload
            /\ resp' = into_response(mint_token(payload))
    /\ UNCHANGED <<kp, signed>>

SignMessage ==
    /\ op = "none"
    /\ \E m \in Messages, s \in SecretTexts :
        LET payload == [message |-> m, secret |-> s]
        IN  /\ op' = "sign_message"
            /\ req' = payload
            /\ resp' = into_response(sign_message(payload))
    /\ UNCHANGED <<kp, signed>>

VerifyMessage ==
    /\ op = "none"
    /\ \E m \in Messages, s \in SignatureTexts, k \in IdTexts :
        LET payload == [message |-> m, signature |-> s, pubkey |-> k]
        IN  /\ op' = "verify_message"
            /\ req' = payload
            /\ resp' = into_response(verify_message(payload))
    /\ UNCHANGED <<kp, signed>>

SendSol ==
    /\ op = "none"
    /\ \E f \in IdTexts, t \in IdTexts, n \in Amounts :
        LET payload == [from |-> f, to |-> t, lamports |-> n]
        IN  /\ op' = "send_sol"
            /\ req' = payload
            /\ resp' = into_response(send_sol(payload))
    /\ UNCHANGED <<kp, signed>>

SendToken ==
    /\ op = "none"
    /\ \E d \in IdTexts, m \in IdTexts, o \in IdTexts, n \in Amounts :
        LET payload == [destination |-> d, mint |-> m, owner |-> o, amount |-> n]
        IN  /\ op' = "send_token"
            /\ req' = payload
            /\ resp' = into_response(send_token(payload))
    /\ UNCHANGED <<kp, signed>>

\* handlers.rs
HandlersCreateToken ==
    /\ op = "none"
    /\ \E a \in IdTexts, m \in IdTexts, d \in Decimals :
        LET payload == [mint_authority |-> a, mint |-> m, decimals |-> d]
        IN  /\ op' = "handlers_create_token"
            /\ req' = payload
            /\ resp' = handlers_create_token(payload)
    /\ UNCHANGED <<kp, signed>>

\* The response leaves the server; the client keeps the data of a /keypair
\* and of a successful /message/sign response.
Deliver ==
    /\ op # "none"
    /\ kp' = IF op = "generate_keypair" THEN resp.data ELSE kp
    /\ signed' = IF op = "sign_message" /\ resp.status = 200 THEN resp.data ELSE signed
    /\ op' = "none"
    /\ req' = None
    /\ resp' = None

Next ==
    \/ SendSol
    \/ SendToken
    \/ CreateToken
    \/ MintToken
    \/ GenerateKeypair
    \/ SignMessage
    \/ VerifyMessage
    \/ HandlersCreateToken
    \/ Deliver

Spec == Init /\ [][Next]_vars

(***************************************************************************)
(* Properties.                                                             *)
(***************************************************************************)
\* The ApiError variant of the response, "none" where it carries no error.
ErrorKind == IF "kind" \in DOMAIN resp THEN resp.kind ELSE "none"

IsError(kind) ==
    /\ resp.status = 400
    /\ resp.success = FALSE
    /\ ErrorKind = kind
    /\ "data" \notin DOMAIN resp

IsSuccess ==
    /\ resp.status = 200
    /\ resp.success = TRUE
    /\ "data" \in DOMAIN resp

Builders == {"create_token", "mint_token", "send_sol", "send_token"}

\* The identifier texts of a builder request, in the order of the request's fields.
Identifiers ==
    IF op = "create_token" THEN <<req.mint_authority, req.mint>>
    ELSE IF op = "mint_token" THEN <<req.mint, req.destination, req.authority>>
    ELSE IF op = "send_sol" THEN <<req.from, req.to>>
    ELSE IF op = "send_token" THEN <<req.mint, req.destination, req.owner>>
    ELSE <<>>

AnyMalformed == \E i \in 1..Len(Identifiers) : Identifiers[i] \in MalformedIds
AllWellFormed == \A i \in 1..Len(Identifiers) : Identifiers[i] \in WellFormedIds

FirstMalformed ==
    Identifiers[CHOOSE i \in 1..Len(Identifiers) :
                    /\ Identifiers[i] \in MalformedIds
                    /\ \A j \in 1..(i - 1) : Identifiers[j] \notin MalformedIds]

TransferAmount ==
    IF op = "send_sol" THEN req.lamports
    ELSE IF op = "send_token" THEN req.amount
    ELSE 1

\* C1: send_sol and send_token answer a zero amount with InvalidAmount and no
\* instruction, whatever the identifier texts are.
C1_ZeroAmountRejected ==
    /\ (op = "send_sol" /\ req.lamports = 0) => IsError("InvalidAmount")
    /\ (op = "send_token" /\ req.amount = 0) => IsError("InvalidAmount")

C1_Witness ==
    /\ op = "send_token"
    /\ req.amount = 0
    /\ req.mint \in MalformedIds
    /\ req.destination \in MalformedIds
    /\ req.owner \in MalformedIds
    /\ ErrorKind = "InvalidAmount"

\* C2 as stated: in all four builders a request with a malformed identifier
\* fails with InvalidPubkey carrying a malformed identifier of the request and
\* returns no instruction; create_token with a malformed mint m fails with
\* InvalidPubkey(m).
C2_AnyMalformedIsInvalidPubkey ==
    /\ (op \in Builders /\ AnyMalformed) =>
          /\ IsError("InvalidPubkey")
          /\ \E i \in 1..Len(Identifiers) :
                /\ Identifiers[i] \in MalformedIds
                /\ resp.error.text = Identifiers[i]
    /\ (op = "create_token" /\ req.mint \in MalformedIds) =>
          /\ IsError("InvalidPubkey")
          /\ resp.error.text = req.mint

\* C2 amended: a builder request with a malformed identifier, and a non-zero
\* amount where the builder is send_sol or send_token, fails with InvalidPubkey
\* carrying the first malformed identifier in decode order (create_token:
\* mint_authority, mint; mint_token: mint, destination, authority; send_sol:
\* from, to; send_token: mint, destination, owner) and returns no instruction.
C2_FirstMalformedIsInvalidPubkey ==
    (op \in Builders /\ AnyMalformed /\ TransferAmount # 0) =>
        /\ IsError("InvalidPubkey")
        /\ resp.error.text = FirstMalformed

C2_Witness ==
    /\ op = "create_token"
    /\ req.mint_authority \in MalformedIds
    /\ req.mint \in MalformedIds
    /\ req.mint # req.mint_authority
    /\ ErrorKind = "InvalidPubkey"
    /\ resp.error.text = req.mint_authority

\* The signature texts that are the base64 of 2 * KeyLen bytes.
WellFormedSignatures ==
    {base64_encode(g) : g \in GenuineSigs} \cup {base64_encode(AlterLast(g)) : g \in GenuineSigs}

\* The request is a signature made with the secret of its public key over its message.
GenuineTriple ==
    \E s \in Seeds :
        /\ req.pubkey = Pubkey_to_string(ed25519_public(s))
        /\ req.signature = base64_encode(ed25519_sign(Keypair_new(s), req.message))

WellFormedVerify ==
    /\ op = "verify_message"
    /\ req.message # <<>>
    /\ req.pubkey \in WellFormedIds
    /\ req.signature \in WellFormedSignatures

\* The number of fields in which the request differs from the kept sign response.
AlteredFields ==
    (IF req.message # signed.message THEN 1 ELSE 0)
    + (IF req.signature # signed.signature THEN 1 ELSE 0)
    + (IF req.pubkey # signed.public_key THEN 1 ELSE 0)

\* C3: verify_message with non-empty, well-formed fields succeeds, valid is
\* true exactly for a genuine (message, signature, key) triple, and a signed
\* triple with one field altered gives success with valid = false.
C3_VerifyNeverErrors ==
    WellFormedVerify =>
        /\ IsSuccess
        /\ resp.data.valid = GenuineTriple
        /\ (signed # None /\ AlteredFields = 1) => resp.data.valid = FALSE

C3_Witness ==
    /\ WellFormedVerify
    /\ signed # None
    /\ req.message = signed.message
    /\ req.pubkey = signed.public_key
    /\ req.signature # signed.signature
    /\ resp.status = 200
    /\ resp.data.valid = FALSE

\* The secret texts that encode a keypair.
KeypairSecrets == {bs58_encode(Keypair_to_bytes(Keypair_new(s))) : s \in Seeds}

\* C4: sign_message of a non-empty message with a keypair's secret succeeds,
\* and verify_message of the message with the returned signature and public
\* key succeeds with valid = true.
C4_SignThenVerify ==
    /\ (op = "sign_message" /\ req.message # <<>> /\ req.secret \in KeypairSecrets) =>
          /\ IsSuccess
          /\ LET again == verify_message([message |-> req.message,
                                          signature |-> resp.data.signature,
                                          pubkey |-> resp.data.public_key])
             IN  again.ok /\ again.val.valid
    /\ (/\ op = "verify_message"
        /\ signed # None
        /\ req.message = signed.message
        /\ req.signature = signed.signature
        /\ req.pubkey = signed.public_key) =>
          (IsSuccess /\ resp.data.valid)

C4_Witness ==
    /\ op = "verify_message"
    /\ signed # None
    /\ req.message = signed.message
    /\ req.signature = signed.signature
    /\ req.pubkey = signed.public_key
    /\ resp.status = 200
    /\ resp.data.valid

SixErrors ==
    {"InvalidPubkey", "InvalidSecretKey", "InvalidSignature", "MissingField",
     "InvalidAmount", "ProgramError"}

Outcome200 == resp.status = 200 /\ resp.success = TRUE /\ "data" \in DOMAIN resp
Outcome400 == resp.status = 400 /\ resp.success = FALSE /\ ErrorKind \in SixErrors

\* C5: every request ends as HTTP 200 with success = true and a data payload,
\* or as HTTP 400 with success = false and one of the six errors; no handler
\* panics.
C5_EveryRequestEndsOkOrError ==
    op # "none" => (Outcome200 \/ Outcome400)

\* The handlers main.rs routes end as C5 says.
RoutedHandlersEndOkOrError ==
    (op # "none" /\ op # "handlers_create_token") => (Outcome200 \/ Outcome400)

IsMissingField(name) == IsError("MissingField") /\ resp.error.arg = name

DecodeErrors == {"InvalidPubkey", "InvalidSecretKey", "InvalidSignature"}

\* C6: the empty-field checks come before all decoding: the first empty field
\* (sign_message: message, secret; verify_message: message, signature, pubkey)
\* is reported as MissingField, and a request with an empty field never gets
\* a decoding error.
C6_MissingFieldFirst ==
    /\ op = "sign_message" =>
          /\ req.message = <<>> => IsMissingField("message")
          /\ (req.message # <<>> /\ req.secret = <<>>) => IsMissingField("secret")
          /\ (req.message = <<>> \/ req.secret = <<>>) => ErrorKind \notin DecodeErrors
    /\ op = "verify_message" =>
          /\ req.message = <<>> => IsMissingField("message")
          /\ (req.message # <<>> /\ req.signature = <<>>) => IsMissingField("signature")
          /\ (req.message # <<>> /\ req.signature # <<>> /\ req.pubkey = <<>>) =>
                IsMissingField("pubkey")
          /\ (req.message = <<>> \/ req.signature = <<>> \/ req.pubkey = <<>>) =>
                ErrorKind \notin DecodeErrors

C6_Witness ==
    /\ op = "verify_message"
    /\ req.message # <<>>
    /\ req.signature = <<>>
    /\ req.pubkey \in MalformedIds
    /\ req.pubkey # <<>>
    /\ ErrorKind = "MissingField"
    /\ resp.error.arg = "signature"

\* C7: send_token with well-formed identifiers and a non-zero amount lists
\* owner (writable source), destination (writable), owner (signing
\* authority), in that order and without merging, and its response does not
\* depend on the mint.
C7_SendTokenIgnoresMint ==
    (op = "send_token" /\ AllWellFormed /\ req.amount > 0) =>
        /\ IsSuccess
        /\ resp.data.accounts =
              <<[pubkey |-> req.owner, is_signer |-> FALSE, is_writable |-> TRUE],
                [pubkey |-> req.destination, is_signer |-> FALSE, is_writable |-> TRUE],
                [pubkey |-> req.owner, is_signer |-> TRUE, is_writable |-> FALSE]>>
        /\ \A m \in WellFormedIds :
              into_response(send_token([req EXCEPT !.mint = m])) = resp

C7_Witness ==
    /\ op = "send_token"
    /\ AllWellFormed
    /\ req.amount > 0
    /\ req.mint # req.owner
    /\ req.destination = req.owner
    /\ resp.status = 200
    /\ Len(resp.data.accounts) = 3

\* C8: mint_token with well-formed identifiers succeeds for every amount, zero
\* included, never answers InvalidAmount, and lists mint (writable),
\* destination (writable), authority (signer) in that order.
C8_MintToAccounts ==
    op = "mint_token" =>
        /\ ErrorKind # "InvalidAmount"
        /\ AllWellFormed =>
              /\ IsSuccess
              /\ Len(resp.data.accounts) = 3
              /\ resp.data.accounts[1].pubkey = req.mint
              /\ resp.data.accounts[1].is_writable
              /\ resp.data.accounts[2].pubkey = req.destination
              /\ resp.data.accounts[2].is_writable
              /\ resp.data.accounts[3].pubkey = req.authority
              /\ resp.data.accounts[3].is_signer

C8_Witness ==
    /\ op = "mint_token"
    /\ AllWellFormed
    /\ req.amount = 0
    /\ resp.status = 200
    /\ Len(resp.data.accounts) = 3

\* C9: send_sol with well-formed identifiers and lamports >= 1 succeeds with
\* exactly the accounts [from: signer and writable, to: writable and not
\* signer], also when from = to.
C9_SendSolAccounts ==
    (op = "send_sol" /\ AllWellFormed /\ req.lamports >= 1) =>
        /\ IsSuccess
        /\ resp.data.accounts =
              <<[pubkey |-> req.from, is_signer |-> TRUE, is_writable |-> TRUE],
                [pubkey |-> req.to, is_signer |-> FALSE, is_writable |-> TRUE]>>

C9_Witness ==
    /\ op = "send_sol"
    /\ AllWellFormed
    /\ req.lamports >= 1
    /\ req.from = req.to
    /\ resp.status = 200
    /\ Len(resp.data.accounts) = 2

\* C10: the secret of a generate_keypair response decodes as base58 to
\* 2 * KeyLen bytes, and a later sign_message with that secret and a non-empty
\* message succeeds and returns the public key generate_keypair returned.
C10_KeypairSecretRoundTrip ==
    kp # None =>
        /\ bs58_decode(kp.secret).ok
        /\ Len(bs58_decode(kp.secret).val) = 2 * KeyLen
        /\ (op = "sign_message" /\ req.secret = kp.secret /\ req.message # <<>>) =>
              /\ IsSuccess
              /\ resp.data.public_key = kp.pubkey

C10_Witness ==
    /\ kp # None
    /\ op = "sign_message"
    /\ req.secret = kp.secret
    /\ req.message # <<>>
    /\ resp.status = 200
    /\ resp.data.public_key = kp.pubkey
====
